---- MODULE Spec2Model ----
(***************************************************************************)
(* A model of generator.py, the company-enrichment pipeline: the URL       *)
(* normalizer, the site scorer, the search and fetch wrappers, the four    *)
(* discovery stages of enrich_companies, the provider dispatcher, the      *)
(* listing parsers and the snippet rule of extract_job_details.            *)
(*                                                                         *)
(* Strings are sequences of one-character strings, so that strip, rstrip,  *)
(* prefix tests and substring tests are computed character by character,   *)
(* as the Python code computes them.  The search engine and the web are    *)
(* the environment: every call draws its outcome from a bounded set.       *)
(***************************************************************************)
EXTENDS Naturals, Integers, Sequences, FiniteSets, TLC

VARIABLES
    world,            \* which bounded environment and input tables this run draws from
    df,               \* the input table: a sequence of rows
    out_df,           \* the output table (df.copy() with the added columns)
    idx,              \* the row enrich_companies is at
    pc,               \* the position inside the loop body
    company,          \* local: company
    website,          \* local: website
    linkedin,         \* local: linkedin
    careers,          \* local: careers
    joblist,          \* local: joblist
    probe_i,          \* find_careers_on_domain: index into candidates
    ats_k,            \* detect_ats_from_search: index into ATS_PROVIDERS
    ats_hits,         \* local: ats_hits, an insertion-ordered dict as a sequence of <<label, url>>
    parser,           \* which listing parser the dispatcher ran for the row
    jobs_to_write,    \* local: jobs_to_write
    c,                \* local: c, the job_post index being written
    total_jobs_found, \* local: total_jobs_found
    calls,            \* history: the kinds of collaborator calls made for the current row
    trace,            \* history: the calls of the current stage, with what they returned
    answered,         \* history: some search or fetch of the run returned something
    args,             \* function harness: the arguments drawn
    rets              \* function harness: the results obtained so far

pipeVars ==
    <<world, df, out_df, idx, pc, company, website, linkedin, careers, joblist,
      probe_i, ats_k, ats_hits, parser, jobs_to_write, c, total_jobs_found, calls,
      trace, answered>>

harnVars ==
    <<args, rets>>

vars ==
    <<world, df, out_df, idx, pc, company, website, linkedin, careers, joblist,
      probe_i, ats_k, ats_hits, parser, jobs_to_write, c, total_jobs_found, calls,
      trace, answered, args, rets>>

(***************************************************************************)
(* Strings                                                                 *)
(***************************************************************************)

\* A missing cell of the table (pandas NaN): a value no string equals.
NaN ==
    <<"NaN">>

\* Python's None where a response is expected.
None ==
    [none |-> TRUE]

\* Python's None where a string is expected: a value no string equals.
NoneStr ==
    <<"None">>

S_https ==
    <<"h", "t", "t", "p", "s", ":", "/", "/">>

S_http ==
    <<"h", "t", "t", "p", ":", "/", "/">>

Min(a, b) ==
    IF a <= b THEN a ELSE b

StartsWith(s, p) ==
    /\ Len(s) >= Len(p)
    /\ SubSeq(s, 1, Len(p)) = p

\* Python's `sub in s`.
Contains(s, sub) ==
    \E i \in 1..(Len(s) - Len(sub) + 1) : SubSeq(s, i, i + Len(sub) - 1) = sub

\* The characters str.strip() removes.
IsSpace(ch) ==
    ch \in {" ", "\t", "\n", "\r"}

RECURSIVE lstrip(_)
lstrip(s) ==
    IF s # <<>> /\ IsSpace(Head(s)) THEN lstrip(Tail(s)) ELSE s

RECURSIVE rstrip(_)
rstrip(s) ==
    IF s # <<>> /\ IsSpace(s[Len(s)]) THEN rstrip(SubSeq(s, 1, Len(s) - 1)) ELSE s

strip(s) ==
    rstrip(lstrip(s))

\* str.rstrip(chars) for a set of characters.
RECURSIVE rstrip_chars(_, _)
rstrip_chars(s, chars) ==
    IF s # <<>> /\ s[Len(s)] \in chars
    THEN rstrip_chars(SubSeq(s, 1, Len(s) - 1), chars)
    ELSE s

RECURSIVE lstrip_chars(_, _)
lstrip_chars(s, chars) ==
    IF s # <<>> /\ Head(s) \in chars THEN lstrip_chars(Tail(s), chars) ELSE s

\* re.match(r"^https?://", u): case-sensitive, at the start.
MatchesScheme(u) ==
    StartsWith(u, S_http) \/ StartsWith(u, S_https)

(***************************************************************************)
(* normalize_url                                                           *)
(***************************************************************************)

\* A normalize_url without the pd.isna test: a missing cell goes through
\* str() and comes out as a URL.
normalize_url_no_isna(u) ==
    IF u = <<>> THEN <<>>
    ELSE LET s == strip(IF u = NaN THEN <<"n", "a", "n">> ELSE u) IN
         IF s = <<>> THEN <<>>
         ELSE rstrip_chars(IF MatchesScheme(s) THEN s ELSE S_https \o s, {"/"})

normalize_url(u) ==
    IF u = NaN \/ u = <<>> THEN <<>>
    ELSE LET s == strip(u) IN
         IF s = <<>> THEN <<>>
         ELSE rstrip_chars(IF MatchesScheme(s) THEN s ELSE S_https \o s, {"/"})

(***************************************************************************)
(* Characters, case and order                                              *)
(***************************************************************************)

\* The printable ASCII characters in code-point order, from 32 on (the
\* backslash and the backtick, which no string of the model holds, by
\* placeholders).
Ascii ==
    <<
      " ", "!", "\"", "#", "$", "%", "&", "'", "(", ")", "*", "+",
      ",", "-", ".", "/", "0", "1", "2", "3", "4", "5", "6", "7",
      "8", "9", ":", ";", "<", "=", ">", "?", "@", "A", "B", "C",
      "D", "E", "F", "G", "H", "I", "J", "K", "L", "M", "N", "O",
      "P", "Q", "R", "S", "T", "U", "V", "W", "X", "Y", "Z", "[",
      "BACKSLASH", "]", "^", "_", "BACKTICK", "a", "b", "c", "d", "e", "f", "g",
      "h", "i", "j", "k", "l", "m", "n", "o", "p", "q", "r", "s",
      "t", "u", "v", "w", "x", "y", "z", "{", "|", "}", "~"
    >>

\* ord(ch), as a table.
Ord ==
    [ch \in {Ascii[i] : i \in DOMAIN Ascii} |->
        31 + (CHOOSE i \in DOMAIN Ascii : Ascii[i] = ch)]

Chr(n) ==
    Ascii[n - 31]

IsUpper(ch) ==
    Ord[ch] \in 65..90

IsLowerAlpha(ch) ==
    Ord[ch] \in 97..122

IsDigit(ch) ==
    Ord[ch] \in 48..57

IsAlpha(ch) ==
    IsUpper(ch) \/ IsLowerAlpha(ch)

LowerCh(ch) ==
    IF IsUpper(ch) THEN Chr(Ord[ch] + 32) ELSE ch

\* str.lower()
lower(s) ==
    [i \in DOMAIN s |-> LowerCh(s[i])]

\* Python's s < t on strings: by code point, a proper prefix first.
RECURSIVE StrLess(_, _)
StrLess(s, t) ==
    IF t = <<>> THEN FALSE
    ELSE IF s = <<>> THEN TRUE
    ELSE IF Head(s) # Head(t) THEN Ord[Head(s)] < Ord[Head(t)]
    ELSE StrLess(Tail(s), Tail(t))

EndsWith(s, p) ==
    /\ Len(s) >= Len(p)
    /\ SubSeq(s, Len(s) - Len(p) + 1, Len(s)) = p

\* The first position of s holding a character of `chars`; Len(s)+1 if none.
FirstOf(s, chars) ==
    IF \E i \in DOMAIN s : s[i] \in chars
    THEN CHOOSE i \in DOMAIN s : s[i] \in chars /\ \A j \in 1..(i - 1) : s[j] \notin chars
    ELSE Len(s) + 1

\* str.replace(old, ""): every occurrence, left to right.
RECURSIVE Remove(_, _)
Remove(s, old) ==
    IF s = <<>> THEN <<>>
    ELSE IF StartsWith(s, old) THEN Remove(SubSeq(s, Len(old) + 1, Len(s)), old)
    ELSE <<Head(s)>> \o Remove(Tail(s), old)

\* The number of occurrences of ch in s.
RECURSIVE Count(_, _)
Count(s, ch) ==
    IF s = <<>> THEN 0
    ELSE (IF Head(s) = ch THEN 1 ELSE 0) + Count(Tail(s), ch)

\* re.search(pattern, s) for a pattern of literal characters and unescaped
\* dots, a dot matching any character but a newline.
RegexSearch(s, pat) ==
    \E i \in 1..(Len(s) - Len(pat) + 1) :
        \A j \in DOMAIN pat :
            IF pat[j] = "." THEN s[i + j - 1] # "\n" ELSE s[i + j - 1] = pat[j]

(***************************************************************************)
(* urlparse, urljoin, domain_of                                            *)
(***************************************************************************)

SchemeChar(ch) ==
    IsAlpha(ch) \/ IsDigit(ch) \/ ch \in {"+", "-", "."}

\* urllib.parse.urlparse: the scheme, the netloc and the path of a URL.  A
\* scheme is a leading run of scheme characters, the first a letter, before
\* the first colon; a netloc is what follows "//" up to the next of / ? #.
SplitScheme(url, i) ==
    IF /\ i > 1
       /\ i <= Len(url)
       /\ IsAlpha(url[1])
       /\ \A j \in 1..(i - 1) : SchemeChar(url[j])
    THEN [scheme |-> lower(SubSeq(url, 1, i - 1)), rest |-> SubSeq(url, i + 1, Len(url))]
    ELSE [scheme |-> <<>>, rest |-> url]

SplitNetlocAt(rest, afterNet, k) ==
    IF StartsWith(rest, <<"/", "/">>)
    THEN [netloc |-> SubSeq(afterNet, 1, k - 1), tail |-> SubSeq(afterNet, k, Len(afterNet))]
    ELSE [netloc |-> <<>>, tail |-> rest]

SplitNetlocOf(rest, afterNet) ==
    SplitNetlocAt(rest, afterNet, FirstOf(afterNet, {"/", "?", "#"}))

SplitNetloc(rest) ==
    SplitNetlocOf(rest, SubSeq(rest, 3, Len(rest)))

\* The part of s before its first character of `chars`.
Before(s, chars) ==
    SubSeq(s, 1, FirstOf(s, chars) - 1)

UrlParts(s, n) ==
    [scheme |-> s.scheme, netloc |-> n.netloc,
     path |-> Before(Before(n.tail, {"#"}), {"?"})]

UrlAfterScheme(s) ==
    UrlParts(s, SplitNetloc(s.rest))

urlparse(url) ==
    UrlAfterScheme(SplitScheme(url, FirstOf(url, {":"})))

\* urllib.parse.urljoin(base, href) for an href that starts with "/" and
\* holds no "." or ".." segment, against an http(s) base: an href starting
\* with "//" takes the base's scheme only, any other the scheme and netloc.
urljoin_parsed(b, href) ==
    IF StartsWith(href, <<"/", "/">>)
    THEN b.scheme \o <<":">> \o href
    ELSE b.scheme \o <<":", "/", "/">> \o b.netloc \o href

urljoin(base, href) ==
    urljoin_parsed(urlparse(base), href)

domain_of(url) ==
    Remove(lower(urlparse(url).netloc), <<"w", "w", "w", ".">>)

(***************************************************************************)
(* pick_best_site                                                          *)
(***************************************************************************)

IsTokenCh(ch) ==
    IsLowerAlpha(ch) \/ IsDigit(ch)

\* re.sub(r"[^a-z0-9]+", " ", s).split(): the maximal runs of [a-z0-9].
RECURSIVE Runs(_, _)
Runs(s, cur) ==
    IF s = <<>> THEN (IF cur = <<>> THEN <<>> ELSE <<cur>>)
    ELSE IF IsTokenCh(Head(s)) THEN Runs(Tail(s), Append(cur, Head(s)))
    ELSE (IF cur = <<>> THEN <<>> ELSE <<cur>>) \o Runs(Tail(s), <<>>)

LongToken(t) ==
    Len(t) > 2

NameTokens(company_name) ==
    SelectSeq(Runs(lower(company_name), <<>>), LongToken)

\* .com .org .net .io .co .gov .edu
TLDS ==
    {<<".", "c", "o", "m">>,
     <<".", "o", "r", "g">>,
     <<".", "n", "e", "t">>,
     <<".", "i", "o">>,
     <<".", "c", "o">>,
     <<".", "g", "o", "v">>,
     <<".", "e", "d", "u">>}

\* re.search(r"\.(com|org|net|io|co|gov|edu)$", d)
KnownTld(d) ==
    \E t \in TLDS : EndsWith(d, t)

\* len(urlparse(url).path.strip("/").split("/"))
PathLen(url) ==
    1 + Count(rstrip_chars(lstrip_chars(urlparse(url).path, {"/"}), {"/"}), "/")

SiteScoreOf(d, path_len, tokens) ==
    3 * Cardinality({i \in DOMAIN tokens : Contains(d, tokens[i])})
      - Min(path_len, 3)
      + (IF KnownTld(d) THEN 1 ELSE 0)

SiteScore(url, tokens) ==
    SiteScoreOf(domain_of(url), PathLen(url), tokens)

\* (score, url) tuples compared as Python compares them.
ScoredLess(a, b) ==
    \/ a.score < b.score
    \/ a.score = b.score /\ StrLess(a.url, b.url)

\* scored.sort(reverse=True); return scored[0][1].  None when results is empty.
Scored(results, tokens) ==
    {[score |-> SiteScore(results[i], tokens), url |-> results[i]] : i \in DOMAIN results}

Best(scored) ==
    (CHOOSE a \in scored : \A b \in scored : ~ScoredLess(a, b)).url

pick_best_site(results, company_name) ==
    IF results = <<>> THEN NoneStr
    ELSE Best(Scored(results, NameTokens(company_name)))

(***************************************************************************)
(* Bounded sets of strings                                                 *)
(***************************************************************************)

\* All sequences over `alphabet` of length at most n.
RECURSIVE SeqsUpTo(_, _)
SeqsUpTo(alphabet, n) ==
    IF n = 0 THEN {<<>>}
    ELSE LET shorter == SeqsUpTo(alphabet, n - 1) IN
         shorter \cup {Append(s, a) : s \in shorter, a \in alphabet}

MaxBody ==
    4

NormAlphabet ==
    {" ", "/", "a"}

\* The strings normalize_url is applied to: a missing cell, and an optional
\* scheme followed by a short body of spaces, slashes and letters.
NormInputs ==
    {NaN} \cup {p \o b : p \in {<<>>, S_http, S_https}, b \in SeqsUpTo(NormAlphabet, MaxBody)}

(***************************************************************************)
(* HTTP responses and safe_get                                             *)
(***************************************************************************)

\* requests.get raised (timeout, connection error).
Raise ==
    [raise |-> TRUE]

\* What the parsers read of a job page: the <title> string and the first <h1>
\* text (NaN when absent), the siblings of the text nodes matching
\* Location|City, the date text the three date shapes matched and what
\* dateutil made of it (NaN when it raised), the text of the first description
\* container (NaN when no selector matched), and the texts of the p and div
\* elements.
NoPage ==
    [title_tag |-> NaN, h1 |-> NaN, loc_candidates |-> <<>>, date_text |-> <<>>,
     date_parsed |-> NaN, desc |-> NaN, blocks |-> <<>>]

\* A response: its status code, len(resp.text), the <a> elements of the page
\* in document order, and the job-page features.
Response(status, text_len, anchors, page) ==
    [status |-> status, text_len |-> text_len, anchors |-> anchors, page |-> page]

\* bool(resp): None is falsy, and a requests.Response is truthy iff resp.ok,
\* that is iff its status code is below 400.
Truthy(resp) ==
    resp # None /\ resp.status < 400

\* The default of safe_get's retries parameter; every caller uses it.
DEFAULT_RETRIES ==
    2

\* The loop of safe_get from iteration `attempt` on.  outcomes[i] is what the
\* i-th requests.get does: Raise, or the response it returns.  The result
\* carries what safe_get returns, the number of requests issued, the seconds
\* slept, and whether an exception left safe_get.
RECURSIVE safe_get_loop(_, _, _, _)
safe_get_loop(attempt, outcomes, retries, slept) ==
    IF attempt > retries
    THEN [ret |-> None, attempts |-> attempt, slept |-> slept, raised |-> FALSE]
    ELSE IF outcomes[attempt + 1] # Raise
    THEN [ret |-> outcomes[attempt + 1], attempts |-> attempt + 1, slept |-> slept,
          raised |-> FALSE]
    ELSE IF attempt < retries
    THEN safe_get_loop(attempt + 1, outcomes, retries, slept + 1 + attempt * 2)
    ELSE [ret |-> None, attempts |-> attempt + 1, slept |-> slept, raised |-> FALSE]

\* A safe_get that also retries when the response carries an error status,
\* as a raise_for_status() in the try block would make it: the variant the
\* first-response property must tell apart.
RECURSIVE safe_get_loop_checked(_, _, _, _)
safe_get_loop_checked(attempt, outcomes, retries, slept) ==
    IF attempt > retries
    THEN [ret |-> None, attempts |-> attempt, slept |-> slept, raised |-> FALSE]
    ELSE IF outcomes[attempt + 1] # Raise /\ outcomes[attempt + 1].status < 400
    THEN [ret |-> outcomes[attempt + 1], attempts |-> attempt + 1, slept |-> slept,
          raised |-> FALSE]
    ELSE IF attempt < retries
    THEN safe_get_loop_checked(attempt + 1, outcomes, retries, slept + 1 + attempt * 2)
    ELSE [ret |-> None, attempts |-> attempt + 1, slept |-> slept, raised |-> FALSE]

safe_get_checked(outcomes, retries) ==
    safe_get_loop_checked(0, outcomes, retries, 0)

safe_get(outcomes, retries) ==
    safe_get_loop(0, outcomes, retries, 0)

(***************************************************************************)
(* search_duckduckgo                                                       *)
(***************************************************************************)

\* One result of DDGS().text: a dict whose URL is under 'href', 'url' or
\* 'link'; a missing key reads as the empty string.
Item(href, url, link) ==
    [href |-> href, url |-> url, link |-> link]

\* r.get("href") or r.get("url") or r.get("link") or r.get("href")
ItemUrl(r) ==
    IF r.href # <<>> THEN r.href
    ELSE IF r.url # <<>> THEN r.url
    ELSE IF r.link # <<>> THEN r.link
    ELSE r.href

\* What one DDGS().text call does: it yields `items` and then either ends or
\* raises (raises with no items: the call itself failed).
SearchOutcome(items, raises) ==
    [items |-> items, raises |-> raises]

RECURSIVE CollectUrls(_)
CollectUrls(items) ==
    IF items = <<>> THEN <<>>
    ELSE LET u == ItemUrl(Head(items)) IN
         (IF u # <<>> THEN <<u>> ELSE <<>>) \o CollectUrls(Tail(items))

\* outcomes[i] is what the i-th DDGS().text call would do.  The function
\* issues one call; an exception is swallowed and the URLs collected before
\* it are returned.
search_duckduckgo(outcomes) ==
    [urls |-> CollectUrls(outcomes[1].items), attempts |-> 1, raised |-> FALSE]

(***************************************************************************)
(* extract_job_details                                                     *)
(***************************************************************************)

SNIPPET_CHARS ==
    500

Ellipsis ==
    <<".", ".", ".">>

\* snippet = (main_text[:500] + "...") if main_text else ""
Snippet(main_text) ==
    IF main_text # <<>>
    THEN SubSeq(main_text, 1, Min(SNIPPET_CHARS, Len(main_text))) \o Ellipsis
    ELSE <<>>

\* max(texts, key=len): the first of the longest.
RECURSIVE Longest(_)
Longest(texts) ==
    IF Len(texts) = 1 THEN texts[1]
    ELSE LET rest == Longest(Tail(texts)) IN
         IF Len(texts[1]) >= Len(rest) THEN texts[1] ELSE rest

LongBlock(t) ==
    Len(strip(t)) > 50

\* The description text: the first matching container's text, else the
\* longest p or div text of more than 50 characters, else empty.
MainText(page) ==
    LET sel == IF page.desc = NaN THEN <<>> ELSE page.desc
        texts == SelectSeq(page.blocks, LongBlock)
    IN  IF sel # <<>> THEN sel
        ELSE IF texts # <<>> THEN Longest(texts)
        ELSE <<>>

PageTitle(page) ==
    LET t == IF page.title_tag # NaN /\ page.title_tag # <<>>
             THEN strip(page.title_tag) ELSE <<>>
    IN  IF page.h1 # NaN /\ strip(page.h1) # <<>> THEN strip(page.h1) ELSE t

\* The first Location|City candidate whose sibling is under 200 characters.
RECURSIVE PageLocation(_)
PageLocation(cands) ==
    IF cands = <<>> THEN <<>>
    ELSE IF Head(cands).sibling_len < 200 THEN Head(cands).text
    ELSE PageLocation(Tail(cands))

PageDate(page) ==
    IF page.date_text = <<>> THEN <<>>
    ELSE IF page.date_parsed = NaN THEN page.date_text
    ELSE page.date_parsed

NoDetails ==
    [title |-> <<>>, location |-> <<>>, date |-> <<>>, snippet |-> <<>>]

\* extract_job_details, given what safe_get(job_url) returned.
extract_job_details(resp) ==
    IF ~Truthy(resp) \/ resp.status # 200 THEN NoDetails
    ELSE [title |-> PageTitle(resp.page),
          location |-> PageLocation(resp.page.loc_candidates),
          date |-> PageDate(resp.page),
          snippet |-> Snippet(MainText(resp.page))]

(***************************************************************************)
(* Listing parsers                                                         *)
(***************************************************************************)

\* A maximum one above the configured one.
MAX_JOBS_RAISED ==
    3 + 1

MAX_JOBS_PER_COMPANY ==
    3

P_jobs ==
    <<"/", "j", "o", "b", "s", "/">>

P_job ==
    <<"/", "j", "o", "b", "/">>

\* An <a> element: its href attribute (NaN when it has none), its text, and
\* whether it lies under a div of class "opening".
Anchor(href, text, in_opening) ==
    [href |-> href, text |-> text, in_opening |-> in_opening]

\* a[href*='x']: the element has an href attribute that contains x.
HrefHas(a, x) ==
    a.href # NaN /\ Contains(a.href, x)

\* The loop all five parsers and the generic fallback share, over the
\* selected anchors in document order: skip an empty href, resolve an href
\* that starts with "/" against the listing URL, skip an href already seen,
\* append its normalized URL and stripped text, stop at the maximum.
RECURSIVE ListingLoop(_, _, _, _)
ListingLoop(listing_url, anchors, out, seen) ==
    IF anchors = <<>> THEN out
    ELSE LET a == Head(anchors) IN
         IF a.href = NaN \/ a.href = <<>>
         THEN ListingLoop(listing_url, Tail(anchors), out, seen)
         ELSE LET href == IF StartsWith(a.href, <<"/">>)
                          THEN urljoin(listing_url, a.href)
                          ELSE a.href
              IN  IF href \in seen
                  THEN ListingLoop(listing_url, Tail(anchors), out, seen)
                  ELSE LET out2 == Append(out, [url |-> normalize_url(href),
                                                title |-> strip(a.text)])
                       IN  IF Len(out2) >= MAX_JOBS_PER_COMPANY THEN out2
                           ELSE ListingLoop(listing_url, Tail(anchors), out2,
                                            seen \cup {href})

SelTeamtailor(a) ==
    HrefHas(a, P_jobs)

SelLever(a) ==
    HrefHas(a, P_jobs)

SelGreenhouse(a) ==
    HrefHas(a, P_jobs) \/ a.in_opening

SelWorkable(a) ==
    HrefHas(a, P_jobs)

SelPersonio(a) ==
    HrefHas(a, P_job) \/ HrefHas(a, P_jobs)

SelGeneric(a) ==
    \/ HrefHas(a, P_jobs)
    \/ HrefHas(a, <<"/", "c", "a", "r", "e", "e", "r", "s", "/">>)
    \/ HrefHas(a, P_job)

\* Each parser, given what safe_get(listing_url) returned.
parse_teamtailor_listings(listing_url, resp) ==
    IF ~Truthy(resp) \/ resp.status # 200 THEN <<>>
    ELSE ListingLoop(listing_url, SelectSeq(resp.anchors, SelTeamtailor), <<>>, {})

parse_lever_listings(listing_url, resp) ==
    IF ~Truthy(resp) \/ resp.status # 200 THEN <<>>
    ELSE ListingLoop(listing_url, SelectSeq(resp.anchors, SelLever), <<>>, {})

parse_greenhouse_listings(listing_url, resp) ==
    IF ~Truthy(resp) \/ resp.status # 200 THEN <<>>
    ELSE ListingLoop(listing_url, SelectSeq(resp.anchors, SelGreenhouse), <<>>, {})

parse_workable_listings(listing_url, resp) ==
    IF ~Truthy(resp) \/ resp.status # 200 THEN <<>>
    ELSE ListingLoop(listing_url, SelectSeq(resp.anchors, SelWorkable), <<>>, {})

parse_personio_listings(listing_url, resp) ==
    IF ~Truthy(resp) \/ resp.status # 200 THEN <<>>
    ELSE ListingLoop(listing_url, SelectSeq(resp.anchors, SelPersonio), <<>>, {})

\* The else branch of the dispatcher, inline in enrich_companies.
parse_generic_listings(listing_url, resp) ==
    IF Truthy(resp) /\ resp.status = 200
    THEN ListingLoop(listing_url, SelectSeq(resp.anchors, SelGeneric), <<>>, {})
    ELSE <<>>

Parsers ==
    {"teamtailor", "lever", "greenhouse", "workable", "personio", "generic"}

parse_listings(p, listing_url, resp) ==
    CASE p = "teamtailor" -> parse_teamtailor_listings(listing_url, resp)
      [] p = "lever" -> parse_lever_listings(listing_url, resp)
      [] p = "greenhouse" -> parse_greenhouse_listings(listing_url, resp)
      [] p = "workable" -> parse_workable_listings(listing_url, resp)
      [] p = "personio" -> parse_personio_listings(listing_url, resp)
      [] p = "generic" -> parse_generic_listings(listing_url, resp)

(***************************************************************************)
(* The provider table, detection and dispatch                              *)
(***************************************************************************)

K_teamtailor ==
    <<"t", "e", "a", "m", "t", "a", "i", "l", "o", "r">>

K_lever ==
    <<"l", "e", "v", "e", "r">>

K_greenhouse ==
    <<"g", "r", "e", "e", "n", "h", "o", "u", "s", "e">>

K_workable ==
    <<"w", "o", "r", "k", "a", "b", "l", "e">>

K_personio ==
    <<"p", "e", "r", "s", "o", "n", "i", "o">>

H_teamtailor ==
    <<"t", "e", "a", "m", "t", "a", "i", "l", "o", "r", ".", "c", "o", "m">>

H_lever ==
    <<"l", "e", "v", "e", "r", ".", "c", "o">>

H_greenhouse ==
    <<"g", "r", "e", "e", "n", "h", "o", "u", "s", "e", ".", "i", "o">>

H_workable ==
    <<"a", "p", "p", "l", "y", ".", "w", "o", "r", "k", "a", "b", "l", "e", ".", "c",
      "o", "m">>

H_personio ==
    <<"p", "e", "r", "s", "o", "n", "i", "o", ".", "c", "o", "m">>

H_zohorecruit ==
    <<"z", "o", "h", "o", "r", "e", "c", "r", "u", "i", "t", ".", "c", "o", "m">>

H_smartrecruiters ==
    <<"s", "m", "a", "r", "t", "r", "e", "c", "r", "u", "i", "t", "e", "r", "s", ".",
      "c", "o", "m">>

H_workday ==
    <<"w", "o", "r", "k", "d", "a", "y", ".", "c", "o", "m">>

ATS_PROVIDERS ==
    << [label |-> "teamtailor", host |-> H_teamtailor],
       [label |-> "lever", host |-> H_lever],
       [label |-> "greenhouse", host |-> H_greenhouse],
       [label |-> "workable", host |-> H_workable],
       [label |-> "personio", host |-> H_personio],
       [label |-> "zohorecruit", host |-> H_zohorecruit],
       [label |-> "smartrecruiters", host |-> H_smartrecruiters],
       [label |-> "workday", host |-> H_workday] >>

\* The first element of a sequence of URLs; <<>> when it is empty.
First(urls) ==
    IF urls = <<>> THEN <<>> ELSE Head(urls)

\* A dict in insertion order: a sequence of <<key, value>>.
HasKey(d, k) ==
    \E i \in DOMAIN d : d[i][1] = k

Get(d, k) ==
    d[CHOOSE i \in DOMAIN d : d[i][1] = k][2]

\* One iteration of detect_ats_from_search: the first result that contains
\* the provider's host is recorded, normalized, under the provider's label.
AtsRecord(hits, provider, results) ==
    LET HostIn(u) == Contains(u, provider.host)
        u == First(SelectSeq(results, HostIn))
    IN  IF u = <<>> THEN hits
        ELSE Append(hits, <<provider.label, normalize_url(u)>>)

PRIORITY ==
    <<"teamtailor", "lever", "greenhouse", "workable", "personio", "zohorecruit",
      "smartrecruiters">>

RECURSIVE PriorityPick(_, _)
PriorityPick(priority, hits) ==
    IF priority = <<>> THEN <<>>
    ELSE IF HasKey(hits, Head(priority)) THEN Get(hits, Head(priority))
    ELSE PriorityPick(Tail(priority), hits)

\* The choice without the priority list: the hit found last.
ChooseLastHit(hits) ==
    hits[Len(hits)][2]

\* The choice among a non-empty ats_hits: by priority, else the first value.
ChooseHit(hits) ==
    LET chosen == PriorityPick(PRIORITY, hits) IN
    IF chosen = <<>> THEN hits[1][2] ELSE chosen

\* The if/elif chain of the dispatcher.
Dispatch(url) ==
    LET host == lower(urlparse(url).netloc) IN
    IF Contains(host, K_teamtailor) THEN "teamtailor"
    ELSE IF Contains(host, H_lever) \/ Contains(url, K_lever) THEN "lever"
    ELSE IF Contains(host, K_greenhouse) \/ Contains(url, K_greenhouse) THEN "greenhouse"
    ELSE IF Contains(host, K_workable) \/ Contains(host, H_workable) THEN "workable"
    ELSE IF Contains(host, K_personio) THEN "personio"
    ELSE "generic"

(***************************************************************************)
(* The discovery stages                                                    *)
(***************************************************************************)

\* A search made and what it returned.
Searched(kind, urls) ==
    [kind |-> kind, urls |-> urls]

\* A fetch made and what safe_get returned.
Fetched(kind, url, ret) ==
    [kind |-> kind, url |-> url, ret |-> ret]

\* Whether a call returned something: a search a URL, a fetch a 200.
Answer(e) ==
    IF "urls" \in DOMAIN e THEN e.urls # <<>>
    ELSE e.ret # None /\ e.ret.status = 200

Kinds(entries) ==
    [i \in DOMAIN entries |-> entries[i].kind]

\* find_official_site, given what its two searches would return: the second
\* search is made only when the first gave no usable candidate.
OfficialOf(r1, b1, r2, b2) ==
    IF r1 # <<>> /\ b1 # NoneStr /\ b1 # <<>>
    THEN [ret |-> normalize_url(b1), searches |-> <<Searched("search:official", r1)>>]
    ELSE [ret |-> IF r2 # <<>> /\ b2 # NoneStr /\ b2 # <<>> THEN normalize_url(b2) ELSE <<>>,
          searches |-> <<Searched("search:official", r1), Searched("search:bare", r2)>>]

OfficialFrom(company_name, r1, r2) ==
    OfficialOf(r1, pick_best_site(r1, company_name), r2, pick_best_site(r2, company_name))

find_official_site(company_name, o1, o2) ==
    OfficialFrom(company_name, search_duckduckgo(<<o1>>).urls, search_duckduckgo(<<o2>>).urls)

IsLinkedinCompany(u) ==
    Contains(u, <<"l", "i", "n", "k", "e", "d", "i", "n", ".", "c", "o", "m",
                  "/", "c", "o", "m", "p", "a", "n", "y">>)

find_linkedin_company(o) ==
    LET results == search_duckduckgo(<<o>>).urls
        u == First(SelectSeq(results, IsLinkedinCompany))
    IN  [ret |-> IF u = <<>> THEN <<>> ELSE normalize_url(u),
         searches |-> <<Searched("search:linkedin", results)>>]

\* candidates, in find_careers_on_domain.
CANDIDATES ==
    <<<<"/", "c", "a", "r", "e", "e", "r", "s">>,
      <<"/", "j", "o", "b", "s">>,
      <<"/", "a", "b", "o", "u", "t", "/", "c", "a", "r", "e", "e", "r", "s">>,
      <<"/", "c", "o", "m", "p", "a", "n", "y", "/", "c", "a", "r", "e", "e", "r", "s">>,
      <<"/", "c", "a", "r", "e", "e", "r", "s", "-", "u", "s">>,
      <<"/", "j", "o", "i", "n", "-", "u", "s">>,
      <<"/", "w", "o", "r", "k", "-", "w", "i", "t", "h", "-", "u", "s">>,
      <<"/", "j", "o", "i", "n", "-", "o", "u", "r", "-", "t", "e", "a", "m">>>>

ProbeUrl(root, i) ==
    rstrip_chars(root, {"/"}) \o CANDIDATES[i]

\* An acceptance test without the length condition.
ProbeAcceptsAny200(resp) ==
    Truthy(resp) /\ resp.status = 200

\* resp and resp.status_code == 200 and len(resp.text) > 200
ProbeAccepts(resp) ==
    Truthy(resp) /\ resp.status = 200 /\ resp.text_len > 200

K_job ==
    <<"j", "o", "b">>

K_join ==
    <<"j", "o", "i", "n">>

\* re.search(r"caree|job|join", u, re.I)
CareersWord(u) ==
    \E k \in {<<"c", "a", "r", "e", "e">>, K_job, K_join} : Contains(lower(u), k)

\* The site: search of find_careers_on_domain: the first result on the
\* root's domain that holds a careers word.
SiteSearchPick(root, results) ==
    LET Fits(u) == domain_of(u) = domain_of(root) /\ CareersWord(u)
        u == First(SelectSeq(results, Fits))
    IN  IF u = <<>> THEN <<>> ELSE normalize_url(u)

\* The "<name> careers" search of enrich_companies.
PlainSearchPick(results) ==
    LET u == First(SelectSeq(results, CareersWord))
    IN  IF u = <<>> THEN <<>> ELSE normalize_url(u)

\* careers and any(x in careers.lower() for x in ["careers", "jobs", "join"])
ReuseCareers(careers_url) ==
    /\ careers_url # <<>>
    /\ \E k \in {<<"c", "a", "r", "e", "e", "r", "s">>, <<"j", "o", "b", "s">>, K_join} :
         Contains(lower(careers_url), k)

\* re.search(r"teamtailor|lever.co|greenhouse.io|workable.com|personio.com|
\* zohorecruit.com|smartrecruiters.com", u, re.I): the dots are unescaped.
AtsWord(u) ==
    \E pat \in {K_teamtailor, H_lever, H_greenhouse,
                <<"w", "o", "r", "k", "a", "b", "l", "e", ".", "c", "o", "m">>, H_personio,
                H_zohorecruit, H_smartrecruiters} :
        RegexSearch(lower(u), pat)

\* The "<name> jobs" search of enrich_companies.
JobsSearchPick(results) ==
    LET u == First(SelectSeq(results, AtsWord))
    IN  IF u = <<>> THEN <<>> ELSE normalize_url(u)

\* str(cell): a missing cell prints as "nan".
str(v) ==
    IF v = NaN THEN <<"n", "a", "n">> ELSE v

\* jobs_to_write[:MAX_JOBS_PER_COMPANY]
JobsSlice(jobs) ==
    SubSeq(jobs, 1, Min(Len(jobs), MAX_JOBS_PER_COMPANY))

(***************************************************************************)
(* The state of the pipeline before enrich_companies is called; the        *)
(* function harnesses below leave it untouched.                            *)
(***************************************************************************)

PipeIdle ==
    /\ world = "none"
    /\ df = <<>>
    /\ out_df = <<>>
    /\ idx = 1
    /\ pc = "done"
    /\ company = <<>>
    /\ website = <<>>
    /\ linkedin = <<>>
    /\ careers = <<>>
    /\ joblist = <<>>
    /\ probe_i = 1
    /\ ats_k = 1
    /\ ats_hits = <<>>
    /\ parser = "none"
    /\ jobs_to_write = <<>>
    /\ c = 1
    /\ total_jobs_found = 0
    /\ calls = <<>>
    /\ trace = <<>>
    /\ answered = FALSE

(***************************************************************************)
(* Harness: normalize_url applied, and applied again to its own result     *)
(***************************************************************************)

InitNorm ==
    /\ PipeIdle
    /\ args \in NormInputs
    /\ rets = <<>>

Normalize ==
    /\ Len(rets) < 2
    /\ rets' = Append(rets, normalize_url(IF rets = <<>> THEN args ELSE rets[Len(rets)]))
    /\ UNCHANGED <<args, pipeVars>>

NextNorm ==
    Normalize

SpecNorm ==
    InitNorm /\ [][NextNorm]_vars

\* C6: normalize_url is idempotent: normalizing a normalized string changes nothing.
C6_NormalizeIdempotent ==
    Len(rets) = 2 => rets[2] = rets[1]

(***************************************************************************)
(* Harness: safe_get and search_duckduckgo called once                     *)
(***************************************************************************)

MaxRetries ==
    3

\* What one requests.get may do.
GetOutcomes ==
    {Raise} \cup {Response(st, 0, <<>>, NoPage) : st \in {200, 404, 500}}

S_u1 ==
    <<"u", "1">>

S_u2 ==
    <<"u", "2">>

\* What one DDGS().text call may do: fail outright, or yield results under
\* any of the three keys, or with no URL at all, and then end or raise.
SearchOutcomes ==
    {SearchOutcome(items, r) :
        items \in {<<>>,
                   <<Item(S_u1, <<>>, <<>>)>>,
                   <<Item(<<>>, S_u1, <<>>), Item(<<>>, <<>>, S_u2)>>,
                   <<Item(<<>>, <<>>, <<>>), Item(S_u2, S_u1, <<>>)>>},
        r \in BOOLEAN}

InitGet ==
    /\ PipeIdle
    /\ rets = <<>>
    /\ \/ /\ args \in [fn : {"safe_get"}, retries : 0..MaxRetries,
                       outcomes : [1..(MaxRetries + 1) -> GetOutcomes]]
       \/ /\ args \in [fn : {"search_duckduckgo"}, retries : {0},
                       outcomes : [1..2 -> SearchOutcomes]]

CallSafeGet ==
    /\ rets = <<>>
    /\ args.fn = "safe_get"
    /\ rets' = <<safe_get(args.outcomes, args.retries)>>
    /\ UNCHANGED <<args, pipeVars>>

CallSearch ==
    /\ rets = <<>>
    /\ args.fn = "search_duckduckgo"
    /\ rets' = <<search_duckduckgo(args.outcomes)>>
    /\ UNCHANGED <<args, pipeVars>>

NextGet ==
    \/ CallSafeGet
    \/ CallSearch

SpecGet ==
    InitGet /\ [][NextGet]_vars

\* The attempts of a safe_get call that did not raise, among the first n.
Answered(outcomes, n) ==
    {i \in 1..n : outcomes[i] # Raise}

\* C9: safe_get returns without raising after at most retries+1 requests (3
\* by default); it returns the response of the first request that did not
\* raise, whatever its status, and issues no request after it; it returns
\* None only when every one of the retries+1 requests raised; and
\* search_duckduckgo issues one search call, never a second.
C9_SafeGetBounded ==
    rets # <<>> =>
      LET r == rets[1]
          n == args.retries + 1
          ok == Answered(args.outcomes, n)
      IN  /\ ~r.raised
          /\ args.fn = "safe_get" =>
               /\ r.attempts <= n
               /\ (args.retries = DEFAULT_RETRIES => r.attempts <= 3)
               /\ ok # {} =>
                    /\ \A i \in ok : i >= r.attempts
                    /\ r.attempts \in ok
                    /\ r.ret = args.outcomes[r.attempts]
               /\ ok = {} => (r.ret = None /\ r.attempts = n)
               /\ r.ret = None => ok = {}
          /\ args.fn = "search_duckduckgo" => r.attempts = 1

\* safe_get ran with the default retries, its first two requests raised and
\* the third answered 404: it returned that response after three requests.
C9_Witness ==
    /\ rets # <<>>
    /\ args.fn = "safe_get"
    /\ args.retries = DEFAULT_RETRIES
    /\ args.outcomes[1] = Raise
    /\ args.outcomes[2] = Raise
    /\ args.outcomes[3] # Raise
    /\ args.outcomes[3].status = 404
    /\ rets[1].attempts = 3
    /\ rets[1].ret = args.outcomes[3]

(***************************************************************************)
(* Harness: extract_job_details on one fetched job page                    *)
(***************************************************************************)

\* How far around SNIPPET_CHARS, and above 0, the description lengths go.
SnippetSpan ==
    3

\* A text of n characters, each position recognisable.
TextOf(n) ==
    [i \in 1..n |-> <<"0", "1", "2", "3", "4", "5", "6", "7", "8", "9">>[(i % 10) + 1]]

SnippetLengths ==
    (0..SnippetSpan) \cup ((SNIPPET_CHARS - SnippetSpan)..(SNIPPET_CHARS + SnippetSpan))

\* Job pages whose description container holds a text of each length, or is
\* absent with one p element to fall back on.
SnippetPages ==
    {[NoPage EXCEPT !.desc = TextOf(n), !.blocks = b] :
        n \in SnippetLengths, b \in {<<>>, <<TextOf(60)>>}}
    \cup {[NoPage EXCEPT !.blocks = <<TextOf(n)>>] : n \in {50, 51, 60}}

InitSnip ==
    /\ PipeIdle
    /\ rets = <<>>
    /\ args \in {Response(st, 1000, <<>>, pg) : st \in {200, 404, 500}, pg \in SnippetPages}
               \cup {None}

ExtractDetails ==
    /\ rets = <<>>
    /\ rets' = <<extract_job_details(args)>>
    /\ UNCHANGED <<args, pipeVars>>

NextSnip ==
    ExtractDetails

SpecSnip ==
    InitSnip /\ [][NextSnip]_vars

\* C7: a description longer than 500 characters comes back as its first 500
\* characters and the ellipsis; one of 500 characters or fewer comes back
\* as it is, with no marker; an empty one gives an empty snippet.
C7_SnippetTruncation ==
    (rets # <<>> /\ args # None /\ args.status = 200) =>
      LET text == args.page.desc
          snip == rets[1].snippet
      IN  /\ (text # NaN /\ Len(text) > 500) => snip = SubSeq(text, 1, 500) \o Ellipsis
          /\ (text # NaN /\ text # <<>> /\ Len(text) <= 500) => snip = text
          /\ (text \in {NaN, <<>>} /\ args.page.blocks = <<>>) => snip = <<>>

(***************************************************************************)
(* Harness: each listing parser applied to one fetched listing page        *)
(***************************************************************************)

MaxAnchors ==
    5

U_board ==
    <<"h", "t", "t", "p", "s", ":", "/", "/", "a", "c", "m", "e", ".", "t", "e", "a",
      "m", "t", "a", "i", "l", "o", "r", ".", "c", "o", "m", "/", "j", "o", "b", "s">>

HREF_1 ==
    <<"/", "j", "o", "b", "s", "/", "1">>

HREF_1s ==
    <<"/", "j", "o", "b", "s", "/", "1", "/">>

HREF_2 ==
    <<"/", "j", "o", "b", "s", "/", "2">>

HREF_3 ==
    <<"/", "j", "o", "b", "/", "3">>

HREF_4 ==
    <<"/", "c", "a", "r", "e", "e", "r", "s", "/", "4">>

HREF_abs1 ==
    <<"h", "t", "t", "p", "s", ":", "/", "/", "a", "c", "m", "e", ".", "t", "e", "a",
      "m", "t", "a", "i", "l", "o", "r", ".", "c", "o", "m", "/", "j", "o", "b", "s",
      "/", "1">>

HREF_about ==
    <<"/", "a", "b", "o", "u", "t">>

TXT_job ==
    <<" ", "J", "o", "b", " ">>

\* The anchors a listing page is made of: links to postings by relative and
\* absolute href, with and without a trailing slash, a link elsewhere, and
\* an anchor without href under a div.opening.
ListingAnchors ==
    {Anchor(h, TXT_job, FALSE) :
        h \in {HREF_1, HREF_1s, HREF_2, HREF_3, HREF_4, HREF_abs1, HREF_about}}
    \cup {Anchor(NaN, <<>>, TRUE)}

InitParse ==
    /\ PipeIdle
    /\ rets = <<>>
    /\ \/ args \in [listing_url : {U_board}, outcome : {"200"},
                    anchors : SeqsUpTo(ListingAnchors, MaxAnchors)]
       \/ args \in [listing_url : {U_board}, outcome : {"404", "None"},
                    anchors : SeqsUpTo(ListingAnchors, 1)]

\* What safe_get(listing_url) returned in the harness.
ParseResp ==
    CASE args.outcome = "200" -> Response(200, 1000, args.anchors, NoPage)
      [] args.outcome = "404" -> Response(404, 1000, args.anchors, NoPage)
      [] args.outcome = "None" -> None

ParseListings ==
    /\ rets = <<>>
    /\ \E p \in Parsers :
         rets' = <<[parser |-> p, out |-> parse_listings(p, args.listing_url, ParseResp)]>>
    /\ UNCHANGED <<args, pipeVars>>

NextParse ==
    ParseListings

SpecParse ==
    InitParse /\ [][NextParse]_vars

\* C5: every listing parser returns at most N = 3 entries and the URLs it
\* returns are pairwise distinct: anchors resolving to the same final
\* absolute URL count once.
C5_ListingsDistinct ==
    rets # <<>> =>
      LET out == rets[1].out IN
      /\ Len(out) <= 3
      /\ \A i, j \in DOMAIN out : i # j => out[i].url # out[j].url

(***************************************************************************)
(* The tables and the web of the pipeline runs                             *)
(***************************************************************************)

\* The most rows a table has.
NumRows ==
    2

N_acme ==
    <<"A", "c", "m", "e">>

N_blank ==
    <<" ", " ">>

W_raw ==
    <<" ", "a", "c", "m", "e", ".", "c", "o", "m", "/">>

W_norm ==
    <<"h", "t", "t", "p", "s", ":", "/", "/", "a", "c", "m", "e", ".", "c", "o", "m">>

L_pre ==
    <<"h", "t", "t", "p", "s", ":", "/", "/", "w", "w", "w", ".", "l", "i", "n", "k",
      "e", "d", "i", "n", ".", "c", "o", "m", "/", "c", "o", "m", "p", "a", "n", "y",
      "/", "a", "c", "m", "e">>

C_pre ==
    <<"h", "t", "t", "p", "s", ":", "/", "/", "a", "c", "m", "e", ".", "c", "o", "m",
      "/", "c", "a", "r", "e", "e", "r", "s">>

R_site ==
    <<"h", "t", "t", "p", "s", ":", "/", "/", "w", "w", "w", ".", "a", "c", "m", "e",
      ".", "c", "o", "m", "/">>

R_about ==
    <<"h", "t", "t", "p", "s", ":", "/", "/", "a", "c", "m", "e", ".", "i", "o", "/",
      "a", "b", "o", "u", "t">>

R_linkedin ==
    <<"h", "t", "t", "p", "s", ":", "/", "/", "w", "w", "w", ".", "l", "i", "n", "k",
      "e", "d", "i", "n", ".", "c", "o", "m", "/", "c", "o", "m", "p", "a", "n", "y",
      "/", "a", "c", "m", "e", "/">>

R_person ==
    <<"h", "t", "t", "p", "s", ":", "/", "/", "w", "w", "w", ".", "l", "i", "n", "k",
      "e", "d", "i", "n", ".", "c", "o", "m", "/", "i", "n", "/", "a", "c", "m", "e">>

R_join ==
    <<"h", "t", "t", "p", "s", ":", "/", "/", "w", "w", "w", ".", "a", "c", "m", "e",
      ".", "c", "o", "m", "/", "J", "o", "i", "n">>

R_other ==
    <<"h", "t", "t", "p", "s", ":", "/", "/", "o", "t", "h", "e", "r", ".", "c", "o",
      "m", "/", "c", "a", "r", "e", "e", "r", "s">>

R_career ==
    <<"h", "t", "t", "p", "s", ":", "/", "/", "a", "c", "m", "e", ".", "c", "o", "m",
      "/", "C", "a", "r", "e", "e", "r">>

R_jobsnet ==
    <<"h", "t", "t", "p", "s", ":", "/", "/", "j", "o", "b", "s", ".", "n", "e", "t",
      "/", "a", "c", "m", "e">>

A_teamtailor ==
    <<"h", "t", "t", "p", "s", ":", "/", "/", "a", "c", "m", "e", ".", "t", "e", "a",
      "m", "t", "a", "i", "l", "o", "r", ".", "c", "o", "m", "/", "j", "o", "b", "s">>

A_lever ==
    <<"h", "t", "t", "p", "s", ":", "/", "/", "j", "o", "b", "s", ".", "l", "e", "v",
      "e", "r", ".", "c", "o", "/", "a", "c", "m", "e">>

A_greenhouse ==
    <<"h", "t", "t", "p", "s", ":", "/", "/", "b", "o", "a", "r", "d", "s", ".", "g",
      "r", "e", "e", "n", "h", "o", "u", "s", "e", ".", "i", "o", "/", "a", "c", "m", "e">>

A_workable ==
    <<"h", "t", "t", "p", "s", ":", "/", "/", "a", "p", "p", "l", "y", ".", "w", "o",
      "r", "k", "a", "b", "l", "e", ".", "c", "o", "m", "/", "a", "c", "m", "e", "/">>

A_personio ==
    <<"h", "t", "t", "p", "s", ":", "/", "/", "a", "c", "m", "e", ".", "j", "o", "b",
      "s", ".", "p", "e", "r", "s", "o", "n", "i", "o", ".", "c", "o", "m">>

A_zohorecruit ==
    <<"h", "t", "t", "p", "s", ":", "/", "/", "a", "c", "m", "e", ".", "z", "o", "h",
      "o", "r", "e", "c", "r", "u", "i", "t", ".", "c", "o", "m", "/", "j", "o", "b", "s">>

A_smartrecruiters ==
    <<"h", "t", "t", "p", "s", ":", "/", "/", "j", "o", "b", "s", ".", "s", "m", "a",
      "r", "t", "r", "e", "c", "r", "u", "i", "t", "e", "r", "s", ".", "c", "o", "m",
      "/", "a", "c", "m", "e">>

A_workday ==
    <<"h", "t", "t", "p", "s", ":", "/", "/", "a", "c", "m", "e", ".", "w", "o", "r",
      "k", "d", "a", "y", ".", "c", "o", "m", "/", "a", "c", "m", "e">>

A_greenhouse_clever ==
    <<"h", "t", "t", "p", "s", ":", "/", "/", "b", "o", "a", "r", "d", "s", ".", "g",
      "r", "e", "e", "n", "h", "o", "u", "s", "e", ".", "i", "o", "/", "c", "l", "e",
      "v", "e", "r">>

A_workable_lever ==
    <<"h", "t", "t", "p", "s", ":", "/", "/", "a", "p", "p", "l", "y", ".", "w", "o",
      "r", "k", "a", "b", "l", "e", ".", "c", "o", "m", "/", "l", "e", "v", "e", "r",
      "a", "g", "e">>

A_teamtailor_path ==
    <<"h", "t", "t", "p", "s", ":", "/", "/", "a", "c", "m", "e", ".", "c", "o", "m",
      "/", "t", "e", "a", "m", "t", "a", "i", "l", "o", "r", ".", "c", "o", "m">>

\* A row of the input table: the company name and the four URL cells.
Row(name, site, li, ca, jl) ==
    [name |-> name, website |-> site, linkedin |-> li, careers |-> ca, joblist |-> jl]

EmptyPost ==
    [url |-> <<>>, title |-> <<>>, location |-> <<>>, date |-> <<>>, snippet |-> <<>>]

\* The row of out_df made from a row of df: the copy, and the
\* job_post{i}_* columns created empty.
OutRow(r) ==
    [name |-> r.name, website |-> r.website, linkedin |-> r.linkedin,
     careers |-> r.careers, joblist |-> r.joblist,
     posts |-> [i \in 1..MAX_JOBS_PER_COMPANY |-> EmptyPost]]

Hits(urls) ==
    SearchOutcome([i \in DOMAIN urls |-> Item(urls[i], <<>>, <<>>)], FALSE)

SearchFails ==
    SearchOutcome(<<>>, TRUE)

AllRaise ==
    [i \in 1..(DEFAULT_RETRIES + 1) |-> Raise]

\* The first request answers.
Now(resp) ==
    [i \in 1..(DEFAULT_RETRIES + 1) |-> IF i = 1 THEN resp ELSE Raise]

\* Only the last request answers.
Late(resp) ==
    [i \in 1..(DEFAULT_RETRIES + 1) |-> IF i = DEFAULT_RETRIES + 1 THEN resp ELSE Raise]

BarePage(status, text_len) ==
    Response(status, text_len, <<>>, NoPage)

TXT_title ==
    <<" ", "E", "n", "g", "i", "n", "e", "e", "r", " ", "|", " ", "A", "c", "m", "e", " ">>

TXT_h1 ==
    <<"E", "n", "g", "i", "n", "e", "e", "r">>

TXT_city ==
    <<"B", "e", "r", "l", "i", "n">>

TXT_date ==
    <<"2", "0", "2", "4", "-", "0", "1", "-", "0", "5">>

JobPage ==
    [title_tag |-> TXT_title, h1 |-> TXT_h1,
     loc_candidates |-> <<[sibling_len |-> 250, text |-> TXT_h1],
                          [sibling_len |-> 6, text |-> TXT_city]>>,
     date_text |-> TXT_date, date_parsed |-> TXT_date, desc |-> NaN,
     blocks |-> <<TextOf(40), TextOf(60)>>]

\* The listing pages of a run: sequences of anchors of at most this length.
MaxListing ==
    4

PageAnchors ==
    {Anchor(h, TXT_job, FALSE) : h \in {HREF_1, HREF_1s, HREF_2, HREF_3}}

ListingPage(anchors) ==
    Response(200, 1000, anchors, NoPage)

OneJobPage ==
    ListingPage(<<Anchor(HREF_1, TXT_job, FALSE)>>)

\* The tables a run may be given, by world.  "dead" and "live" are the
\* end-to-end runs; "careers", "ats" and "jobs" give one stage its full
\* range and the others a narrow one.
EmptyCells ==
    {NaN, <<>>}

Tables ==
    CASE world = "dead" ->
           {t \in SeqsUpTo({Row(N_acme, NaN, NaN, NaN, NaN), Row(N_acme, <<>>, <<>>, NaN, <<>>),
                            Row(N_blank, NaN, NaN, NaN, NaN),
                            Row(N_acme, W_raw, NaN, NaN, NaN)}, NumRows) : t # <<>>}
      [] world = "live" ->
           {<<r>> : r \in {Row(N_acme, NaN, NaN, NaN, NaN), Row(NaN, <<>>, NaN, <<>>, NaN),
                           Row(N_blank, W_norm, NaN, NaN, NaN),
                           Row(N_acme, W_raw, NaN, NaN, NaN),
                           Row(N_acme, W_norm, <<>>, <<>>, <<>>),
                           Row(N_acme, W_norm, L_pre, C_pre, A_lever)}}
      [] world = "careers" ->
           {<<Row(N_acme, w, L_pre, ca, NaN)>> : w \in {NaN, W_raw, W_norm}, ca \in {NaN, C_pre}}
      [] world = "ats" ->
           {<<Row(N_acme, W_norm, L_pre, ca, jl)>> : ca \in {NaN, C_pre}, jl \in {NaN, A_workday}}
      [] world = "jobs" ->
           {<<Row(N_acme, W_norm, L_pre, ca, jl)>> :
               ca \in {NaN, C_pre},
               jl \in {NaN, A_teamtailor, A_lever, A_greenhouse, A_workable, A_personio,
                       A_workday, A_greenhouse_clever}}

\* What a search may yield, by world and by the query it answers.
SearchSet(kind) ==
    CASE world = "dead" -> {SearchFails}
      [] world = "live" ->
          (CASE kind = "official" -> {SearchFails, Hits(<<R_about, R_site>>)}
             [] kind = "bare" -> {Hits(<<>>), Hits(<<R_site>>)}
             [] kind = "linkedin" -> {Hits(<<>>), Hits(<<R_person, R_linkedin>>)}
             [] kind = "site" -> {Hits(<<>>), Hits(<<R_other, R_join>>)}
             [] kind = "careers" -> {SearchFails, Hits(<<R_about, R_career>>)}
             [] kind = "lever" -> {Hits(<<>>), Hits(<<A_lever>>)}
             [] kind = "workable" -> {Hits(<<>>), Hits(<<A_workable>>)}
             [] kind = "workday" -> {Hits(<<>>), Hits(<<A_workday>>)}
             [] kind = "jobs" -> {Hits(<<>>), Hits(<<R_about, A_lever>>)}
             [] OTHER -> {Hits(<<>>)})
      [] world = "careers" ->
          (CASE kind = "official" -> {SearchFails, Hits(<<R_site>>)}
             [] kind = "site" -> {SearchFails, Hits(<<R_other, R_join>>), Hits(<<R_about, R_site>>)}
             [] kind = "careers" -> {Hits(<<>>), Hits(<<R_about, R_career>>), Hits(<<R_jobsnet>>)}
             [] kind = "jobs" -> {SearchFails, Hits(<<A_lever>>)}
             [] OTHER -> {SearchFails})
      [] world = "ats" ->
          (CASE kind = "teamtailor" -> {Hits(<<>>), Hits(<<A_teamtailor>>), Hits(<<A_teamtailor_path>>)}
             [] kind = "lever" -> {SearchFails, Hits(<<R_about, A_lever>>)}
             [] kind = "greenhouse" -> {Hits(<<>>), Hits(<<A_greenhouse>>), Hits(<<A_greenhouse_clever>>)}
             [] kind = "workable" -> {Hits(<<>>), Hits(<<A_workable>>), Hits(<<A_workable_lever>>)}
             [] kind = "personio" -> {Hits(<<>>), Hits(<<A_personio>>)}
             [] kind = "zohorecruit" -> {Hits(<<>>), Hits(<<A_zohorecruit>>)}
             [] kind = "smartrecruiters" -> {Hits(<<>>), Hits(<<A_smartrecruiters>>)}
             [] kind = "workday" -> {Hits(<<>>), Hits(<<A_workday>>)}
             [] kind = "careers" -> {SearchFails, Hits(<<R_career>>)}
             [] kind = "jobs" -> {SearchFails, Hits(<<A_lever>>)}
             [] OTHER -> {SearchFails})
      [] world = "jobs" ->
          (CASE kind = "careers" -> {Hits(<<R_career>>)}
             [] kind = "jobs" -> {SearchFails, Hits(<<A_lever>>)}
             [] OTHER -> {SearchFails})

\* What the requests of one safe_get call may do, by world and by the page.
FetchSet(kind) ==
    CASE world = "dead" -> {AllRaise}
      [] world = "live" ->
          (CASE kind = "probe" -> {AllRaise, Now(BarePage(404, 900)), Late(BarePage(200, 900))}
             [] kind = "listing" ->
                  {AllRaise, Now(Response(404, 1000, <<Anchor(HREF_1, TXT_job, FALSE)>>, NoPage)),
                   Late(ListingPage(<<Anchor(HREF_1, TXT_job, FALSE), Anchor(HREF_2, <<>>, FALSE)>>))}
             [] kind = "job" -> {AllRaise, Now(Response(200, 1000, <<>>, JobPage))})
      [] world = "careers" ->
          (CASE kind = "probe" ->
                  {AllRaise, Now(BarePage(404, 201)), Now(BarePage(200, 200)),
                   Late(BarePage(200, 201))}
             [] kind = "listing" -> {AllRaise, Now(OneJobPage)}
             [] kind = "job" -> {AllRaise})
      [] world = "ats" ->
          (CASE kind = "probe" -> {AllRaise}
             [] kind = "listing" -> {AllRaise, Now(OneJobPage)}
             [] kind = "job" -> {AllRaise})
      [] world = "jobs" ->
          (CASE kind = "probe" -> {AllRaise}
             [] kind = "listing" ->
                  {AllRaise, Now(BarePage(404, 1000))}
                  \cup {Now(ListingPage(a)) : a \in SeqsUpTo(PageAnchors, MaxListing)}
             [] kind = "job" -> {AllRaise, Now(Response(200, 1000, <<>>, JobPage))})

(***************************************************************************)
(* enrich_companies                                                        *)
(***************************************************************************)

InitPipe ==
    /\ df \in Tables
    /\ out_df = [i \in DOMAIN df |-> OutRow(df[i])]
    /\ idx = 1
    /\ pc = "row"
    /\ company = <<>>
    /\ website = <<>>
    /\ linkedin = <<>>
    /\ careers = <<>>
    /\ joblist = <<>>
    /\ probe_i = 1
    /\ ats_k = 1
    /\ ats_hits = <<>>
    /\ parser = "none"
    /\ jobs_to_write = <<>>
    /\ c = 1
    /\ total_jobs_found = 0
    /\ calls = <<>>
    /\ trace = <<>>
    /\ answered = FALSE
    /\ args = <<>>
    /\ rets = <<>>

\* The head of the loop body: company is read and, unless it is blank, the
\* four URL cells are read and normalized.
RowStart ==
    /\ pc = "row"
    /\ idx <= Len(df)
    /\ LET row == out_df[idx]
           name == strip(str(row.name))
       IN  /\ company' = name
           /\ IF name = <<>>
              THEN /\ idx' = idx + 1
                   /\ UNCHANGED <<pc, website, linkedin, careers, joblist, calls, trace,
                                  parser>>
              ELSE /\ idx' = idx
                   /\ pc' = "website"
                   /\ website' = normalize_url(row.website)
                   /\ linkedin' = normalize_url(row.linkedin)
                   /\ careers' = normalize_url(row.careers)
                   /\ joblist' = normalize_url(row.joblist)
                   /\ calls' = <<>>
                   /\ trace' = <<>>
                   /\ parser' = "none"
    /\ UNCHANGED <<world, df, out_df, probe_i, ats_k, ats_hits, jobs_to_write, c,
                   total_jobs_found, answered, args, rets>>

\* The loop is over: return out_df, total_jobs_found.
Return ==
    /\ pc = "row"
    /\ idx > Len(df)
    /\ pc' = "done"
    /\ UNCHANGED <<world, df, out_df, idx, company, website, linkedin, careers, joblist,
                   probe_i, ats_k, ats_hits, parser, jobs_to_write, c, total_jobs_found,
                   calls, trace, answered, args, rets>>

\* The website cell and the log after the website stage returned r.
WebsiteWrite(r) ==
    /\ website' = r.ret
    /\ out_df' = [out_df EXCEPT ![idx].website = r.ret]
    /\ calls' = calls \o Kinds(r.searches)
    /\ trace' = r.searches
    /\ answered' = (answered \/ \E i \in DOMAIN r.searches : Answer(r.searches[i]))

\* A website stage that runs find_official_site whatever the cell holds.
WebsiteStageAlways ==
    /\ pc = "website"
    /\ \E o1 \in SearchSet("official"), o2 \in SearchSet("bare") :
         WebsiteWrite(find_official_site(company, o1, o2))
    /\ pc' = "linkedin"
    /\ UNCHANGED <<world, df, idx, company, linkedin, careers, joblist, probe_i, ats_k,
                   ats_hits, parser, jobs_to_write, c, total_jobs_found, args, rets>>

\* if not website: website = find_official_site(company, descr)
WebsiteStage ==
    /\ pc = "website"
    /\ \E o1 \in SearchSet("official"), o2 \in SearchSet("bare") :
         WebsiteWrite(IF website # <<>> THEN [ret |-> website, searches |-> <<>>]
                      ELSE find_official_site(company, o1, o2))
    /\ pc' = "linkedin"
    /\ UNCHANGED <<world, df, idx, company, linkedin, careers, joblist, probe_i, ats_k,
                   ats_hits, parser, jobs_to_write, c, total_jobs_found, args, rets>>

LinkedinStage ==
    /\ pc = "linkedin"
    /\ \E o \in SearchSet("linkedin") :
         LET r == IF linkedin # <<>> THEN [ret |-> linkedin, searches |-> <<>>]
                  ELSE find_linkedin_company(o)
         IN  /\ linkedin' = r.ret
             /\ out_df' = [out_df EXCEPT ![idx].linkedin = r.ret]
             /\ calls' = calls \o Kinds(r.searches)
             /\ trace' = r.searches
             /\ answered' = (answered \/ \E i \in DOMAIN r.searches : Answer(r.searches[i]))
    /\ pc' = "careers"
    /\ UNCHANGED <<world, df, idx, company, website, careers, joblist, probe_i, ats_k,
                   ats_hits, parser, jobs_to_write, c, total_jobs_found, args, rets>>

\* if not careers: if website: find_careers_on_domain(website), up to its
\* first probe; with careers filled the cell is written and the stage is over.
CareersBegin ==
    /\ pc = "careers"
    /\ trace' = <<>>
    /\ probe_i' = 1
    /\ IF careers # <<>>
       THEN /\ pc' = "joblist"
            /\ out_df' = [out_df EXCEPT ![idx].careers = careers]
       ELSE /\ pc' = IF website # <<>> /\ normalize_url(website) # <<>>
                     THEN "probe" ELSE "plain"
            /\ UNCHANGED out_df
    /\ UNCHANGED <<world, df, idx, company, website, linkedin, careers, joblist, ats_k,
                   ats_hits, parser, jobs_to_write, c, total_jobs_found, calls, answered,
                   args, rets>>

\* One iteration of the loop over candidates in find_careers_on_domain.
CareersProbe ==
    /\ pc = "probe"
    /\ \E outs \in FetchSet("probe") :
         LET root == normalize_url(website)
             url == ProbeUrl(root, probe_i)
             resp == safe_get(outs, DEFAULT_RETRIES).ret
             found == IF ProbeAccepts(resp) THEN normalize_url(url) ELSE <<>>
             e == Fetched("get:probe", url, resp)
         IN  /\ trace' = Append(trace, e)
             /\ calls' = Append(calls, e.kind)
             /\ answered' = (answered \/ Answer(e))
             /\ careers' = found
             /\ IF ProbeAccepts(resp)
                THEN /\ probe_i' = probe_i
                     /\ IF found # <<>>
                        THEN /\ pc' = "joblist"
                             /\ out_df' = [out_df EXCEPT ![idx].careers = found]
                        ELSE /\ pc' = "plain"
                             /\ UNCHANGED out_df
                ELSE /\ UNCHANGED out_df
                     /\ IF probe_i < Len(CANDIDATES)
                        THEN /\ probe_i' = probe_i + 1
                             /\ pc' = "probe"
                        ELSE /\ probe_i' = probe_i
                             /\ pc' = "site"
    /\ UNCHANGED <<world, df, idx, company, website, linkedin, joblist, ats_k, ats_hits,
                   parser, jobs_to_write, c, total_jobs_found, args, rets>>

\* The site:<domain> search that ends find_careers_on_domain.
CareersSiteSearch ==
    /\ pc = "site"
    /\ \E o \in SearchSet("site") :
         LET results == search_duckduckgo(<<o>>).urls
             found == SiteSearchPick(normalize_url(website), results)
             e == Searched("search:site", results)
         IN  /\ trace' = Append(trace, e)
             /\ calls' = Append(calls, e.kind)
             /\ answered' = (answered \/ Answer(e))
             /\ careers' = found
             /\ IF found # <<>>
                THEN /\ pc' = "joblist"
                     /\ out_df' = [out_df EXCEPT ![idx].careers = found]
                ELSE /\ pc' = "plain"
                     /\ UNCHANGED out_df
    /\ UNCHANGED <<world, df, idx, company, website, linkedin, joblist, probe_i, ats_k,
                   ats_hits, parser, jobs_to_write, c, total_jobs_found, args, rets>>

\* The "<name> careers" search, and the write of the careers cell.
CareersPlainSearch ==
    /\ pc = "plain"
    /\ \E o \in SearchSet("careers") :
         LET results == search_duckduckgo(<<o>>).urls
             found == PlainSearchPick(results)
             e == Searched("search:careers", results)
         IN  /\ trace' = Append(trace, e)
             /\ calls' = Append(calls, e.kind)
             /\ answered' = (answered \/ Answer(e))
             /\ careers' = found
             /\ out_df' = [out_df EXCEPT ![idx].careers = found]
    /\ pc' = "joblist"
    /\ UNCHANGED <<world, df, idx, company, website, linkedin, joblist, probe_i, ats_k,
                   ats_hits, parser, jobs_to_write, c, total_jobs_found, args, rets>>

\* if not joblist: detect_ats_from_search starts with an empty ats_hits; with
\* joblist filled the cell is written and the stage is over.
JoblistBegin ==
    /\ pc = "joblist"
    /\ trace' = <<>>
    /\ ats_k' = 1
    /\ IF joblist # <<>>
       THEN /\ pc' = "dispatch"
            /\ out_df' = [out_df EXCEPT ![idx].joblist = joblist]
            /\ UNCHANGED ats_hits
       ELSE /\ pc' = "ats"
            /\ ats_hits' = <<>>
            /\ UNCHANGED out_df
    /\ UNCHANGED <<world, df, idx, company, website, linkedin, careers, joblist, probe_i,
                   parser, jobs_to_write, c, total_jobs_found, calls, answered, args, rets>>

\* One iteration of the loop over ATS_PROVIDERS in detect_ats_from_search.
AtsQuery ==
    /\ pc = "ats"
    /\ \E o \in SearchSet(ATS_PROVIDERS[ats_k].label) :
         LET results == search_duckduckgo(<<o>>).urls
             e == [kind |-> "search:ats", label |-> ATS_PROVIDERS[ats_k].label,
                   urls |-> results]
         IN  /\ ats_hits' = AtsRecord(ats_hits, ATS_PROVIDERS[ats_k], results)
             /\ trace' = Append(trace, e)
             /\ calls' = Append(calls, e.kind)
             /\ answered' = (answered \/ Answer(e))
    /\ IF ats_k < Len(ATS_PROVIDERS)
       THEN /\ ats_k' = ats_k + 1
            /\ pc' = "ats"
       ELSE /\ ats_k' = ats_k
            /\ pc' = "choose"
    /\ UNCHANGED <<world, df, out_df, idx, company, website, linkedin, careers, joblist,
                   probe_i, parser, jobs_to_write, c, total_jobs_found, args, rets>>

\* The choice of joblist from ats_hits, else from the careers URL; with
\* neither, the "<name> jobs" search follows.
JoblistChoose ==
    /\ pc = "choose"
    /\ IF ats_hits # <<>>
       THEN /\ joblist' = ChooseHit(ats_hits)
            /\ out_df' = [out_df EXCEPT ![idx].joblist = ChooseHit(ats_hits)]
            /\ pc' = "dispatch"
       ELSE IF ReuseCareers(careers)
       THEN /\ joblist' = careers
            /\ out_df' = [out_df EXCEPT ![idx].joblist = careers]
            /\ pc' = "dispatch"
       ELSE /\ pc' = "jobs"
            /\ UNCHANGED <<joblist, out_df>>
    /\ UNCHANGED <<world, df, idx, company, website, linkedin, careers, probe_i, ats_k,
                   ats_hits, parser, jobs_to_write, c, total_jobs_found, calls, trace,
                   answered, args, rets>>

\* The "<name> jobs" search, and the write of the job-listings cell.
JobsSearch ==
    /\ pc = "jobs"
    /\ \E o \in SearchSet("jobs") :
         LET results == search_duckduckgo(<<o>>).urls
             found == JobsSearchPick(results)
             e == Searched("search:jobs", results)
         IN  /\ trace' = Append(trace, e)
             /\ calls' = Append(calls, e.kind)
             /\ answered' = (answered \/ Answer(e))
             /\ joblist' = found
             /\ out_df' = [out_df EXCEPT ![idx].joblist = found]
    /\ pc' = "dispatch"
    /\ UNCHANGED <<world, df, idx, company, website, linkedin, careers, probe_i, ats_k,
                   ats_hits, parser, jobs_to_write, c, total_jobs_found, args, rets>>

\* The dispatcher: the parser chosen by Dispatch fetches and parses the page.
DispatchStage ==
    /\ pc = "dispatch"
    /\ IF joblist = <<>>
       THEN /\ jobs_to_write' = <<>>
            /\ parser' = "none"
            /\ UNCHANGED <<calls, answered>>
            /\ trace' = <<>>
       ELSE \E outs \in FetchSet("listing") :
              LET resp == safe_get(outs, DEFAULT_RETRIES).ret
                  e == Fetched("get:listing", joblist, resp)
              IN  /\ parser' = Dispatch(joblist)
                  /\ jobs_to_write' = parse_listings(Dispatch(joblist), joblist, resp)
                  /\ trace' = <<e>>
                  /\ calls' = Append(calls, e.kind)
                  /\ answered' = (answered \/ Answer(e))
    /\ c' = 1
    /\ pc' = "write"
    /\ UNCHANGED <<world, df, out_df, idx, company, website, linkedin, careers, joblist,
                   probe_i, ats_k, ats_hits, total_jobs_found, args, rets>>

\* The post written at job_post{n}; a column the table lacks is created.
SetPost(posts, n, post) ==
    [i \in (DOMAIN posts) \cup {n} |-> IF i = n THEN post ELSE posts[i]]

Or(a, b) ==
    IF a # <<>> THEN a ELSE b

\* One iteration of the loop over jobs_to_write[:MAX_JOBS_PER_COMPANY].
WriteJob ==
    /\ pc = "write"
    /\ c <= Len(JobsSlice(jobs_to_write))
    /\ LET job == JobsSlice(jobs_to_write)[c]
           jurl == job.url
           guess == job.title
       IN  IF jurl = <<>>
           THEN /\ out_df' = [out_df EXCEPT ![idx].posts =
                                SetPost(@, c, [EmptyPost EXCEPT !.title = guess])]
                /\ UNCHANGED <<trace, calls, answered>>
           ELSE \E outs \in FetchSet("job") :
                  LET resp == safe_get(outs, DEFAULT_RETRIES).ret
                      details == extract_job_details(resp)
                      e == Fetched("get:job", jurl, resp)
                  IN  /\ out_df' = [out_df EXCEPT ![idx].posts =
                                      SetPost(@, c, [url |-> jurl,
                                                     title |-> Or(details.title, guess),
                                                     location |-> details.location,
                                                     date |-> details.date,
                                                     snippet |-> details.snippet])]
                      /\ trace' = Append(trace, e)
                      /\ calls' = Append(calls, e.kind)
                      /\ answered' = (answered \/ Answer(e))
    /\ c' = c + 1
    /\ total_jobs_found' = total_jobs_found + 1
    /\ UNCHANGED <<world, df, idx, pc, company, website, linkedin, careers, joblist,
                   probe_i, ats_k, ats_hits, parser, jobs_to_write, args, rets>>

\* The loop over the jobs is over: on to the next row.
RowEnd ==
    /\ pc = "write"
    /\ c > Len(JobsSlice(jobs_to_write))
    /\ idx' = idx + 1
    /\ pc' = "row"
    /\ UNCHANGED <<world, df, out_df, company, website, linkedin, careers, joblist,
                   probe_i, ats_k, ats_hits, parser, jobs_to_write, c, total_jobs_found,
                   calls, trace, answered, args, rets>>

Next ==
    \/ RowStart
    \/ Return
    \/ WebsiteStage
    \/ LinkedinStage
    \/ CareersBegin
    \/ CareersProbe
    \/ CareersSiteSearch
    \/ CareersPlainSearch
    \/ JoblistBegin
    \/ AtsQuery
    \/ JoblistChoose
    \/ JobsSearch
    \/ DispatchStage
    \/ WriteJob
    \/ RowEnd

\* The end-to-end runs: a dead web with tables of up to NumRows rows, and a
\* live web with one-row tables.
Init ==
    /\ world \in {"dead", "live"}
    /\ InitPipe

Spec ==
    Init /\ [][Next]_vars

\* The careers stage over its full range of probe and search outcomes.
InitCareers ==
    /\ world = "careers"
    /\ InitPipe

SpecCareers ==
    InitCareers /\ [][Next]_vars

\* Detection and dispatch over their full range of provider hits.
InitAts ==
    /\ world = "ats"
    /\ InitPipe

SpecAts ==
    InitAts /\ [][Next]_vars

\* Dispatch, parsing and writing over every branch and every listing page.
InitJobs ==
    /\ world = "jobs"
    /\ InitPipe

SpecJobs ==
    InitJobs /\ [][Next]_vars

(***************************************************************************)
(* Properties of enrich_companies                                          *)
(***************************************************************************)

\* A cell that normalize_url reads as empty.
Blank(cell) ==
    cell = NaN \/ strip(cell) = <<>>

\* The job_post{n} slots of output row i that hold something.
Written(i) ==
    {n \in DOMAIN out_df[i].posts : out_df[i].posts[n] # EmptyPost}

\* C1: whatever the job-board URL, the dispatch branch and the listing page,
\* no row ever holds more than N = 3 written job postings, and the write
\* loop never starts a fourth write.
C1_AtMostThreePosts ==
    /\ \A i \in DOMAIN out_df : Cardinality(Written(i)) <= 3
    /\ pc = "write" => c - 1 <= 3

\* A row was dispatched to the generic fallback, its listing page held four
\* anchors with four different hrefs, and the row ended with three postings.
C1_Witness ==
    /\ pc = "done"
    /\ parser = "generic"
    /\ trace # <<>>
    /\ trace[1].kind = "get:listing"
    /\ trace[1].ret # None
    /\ Len(trace[1].ret.anchors) = 4
    /\ \A i, j \in 1..4 : i # j => trace[1].ret.anchors[i].href # trace[1].ret.anchors[j].href
    /\ Cardinality(Written(1)) = 3

\* The labels detection recorded a hit under.
HitLabels ==
    {ats_hits[i][1] : i \in DOMAIN ats_hits}

\* The hit recorded under a label.
HitOf(label) ==
    ats_hits[CHOOSE i \in DOMAIN ats_hits : ats_hits[i][1] = label][2]

\* The fixed priority order, as the property states it.
PriorityOrder ==
    <<"teamtailor", "lever", "greenhouse", "workable", "personio", "zohorecruit",
      "smartrecruiters">>

\* The job-board stage of the current row chose among detection's hits.
ChoseFromDetection ==
    /\ pc \in {"dispatch", "write"}
    /\ Blank(df[idx].joblist)
    /\ ats_hits # <<>>

\* C2: with an empty job-board cell and a non-empty set of hits, the URL
\* stored is the hit of the detected provider that is first in the order
\* teamtailor, lever, greenhouse, workable, personio, zohorecruit,
\* smartrecruiters (lever over workable); the workday hit is stored only
\* when no provider of that list was detected.
C2_PriorityChoice ==
    ChoseFromDetection =>
      LET ranked == {k \in DOMAIN PriorityOrder : PriorityOrder[k] \in HitLabels}
          top == CHOOSE k \in ranked : \A m \in ranked : k <= m
      IN  /\ ranked # {} => out_df[idx].joblist = HitOf(PriorityOrder[top])
          /\ ({"workable", "lever"} \subseteq HitLabels /\ "teamtailor" \notin HitLabels)
               => out_df[idx].joblist = HitOf("lever")
          /\ ("workday" \in HitLabels /\ out_df[idx].joblist = HitOf("workday"))
               => ranked = {}
          /\ ranked = {} => out_df[idx].joblist = ats_hits[1][2]

\* Detection found workable, lever and workday, and the lever hit was stored.
C2_Witness ==
    /\ ChoseFromDetection
    /\ {"workable", "lever", "workday"} \subseteq HitLabels
    /\ "teamtailor" \notin HitLabels
    /\ out_df[idx].joblist = A_lever

\* The current row came with a website and with empty LinkedIn, careers and
\* job-board cells, and its four stages are over.
PrefilledWebsiteRowDone ==
    /\ pc = "write"
    /\ ~Blank(df[idx].website)
    /\ Blank(df[idx].linkedin)
    /\ Blank(df[idx].careers)
    /\ Blank(df[idx].joblist)

\* The discovery calls C3 is about.
OnlyOtherDiscoveries ==
    /\ \A k \in DOMAIN calls : calls[k] \notin {"search:official", "search:bare"}
    /\ \E k \in DOMAIN calls : calls[k] = "search:linkedin"
    /\ \E k \in DOMAIN calls : calls[k] = "get:probe"
    /\ \E k \in DOMAIN calls : calls[k] = "search:ats"

BareRow(i) ==
    /\ strip(str(df[i].name)) # <<>>
    /\ df[i].website \in EmptyCells
    /\ df[i].linkedin \in EmptyCells
    /\ df[i].careers \in EmptyCells
    /\ df[i].joblist \in EmptyCells

\* Output row i holds no URL and no posting.
EmptyOut(i) ==
    /\ out_df[i].website = <<>>
    /\ out_df[i].linkedin = <<>>
    /\ out_df[i].careers = <<>>
    /\ out_df[i].joblist = <<>>
    /\ Written(i) = {}

\* The rows whose loop body is over.
RowsDone ==
    1..(idx - 1)

\* C4: as long as every search came back empty or failed and every fetch
\* failed or answered with another status than 200, every processed row with
\* a name and four empty URL cells is in the output with its four URL
\* fields empty and no posting; the rows after it are processed too, and
\* the run ends having gone through every row, with one output row for each.
C4_DeadWebEmptyRows ==
    ~answered =>
      /\ Len(out_df) = Len(df)
      /\ \A i \in RowsDone : BareRow(i) => EmptyOut(i)
      /\ (pc # "done" /\ pc # "row" /\ BareRow(idx)) => Written(idx) = {}
      /\ total_jobs_found = 0
      /\ pc = "done" => idx = Len(df) + 1

\* A run over two bare rows on a web where nothing answers ended: both rows
\* went through all their searches and probes and both are empty.
C4_Witness ==
    /\ pc = "done"
    /\ ~answered
    /\ Len(df) = 2
    /\ BareRow(1)
    /\ BareRow(2)
    /\ EmptyOut(1)
    /\ EmptyOut(2)
    /\ Len(calls) = 13

\* The careers stage of the current row is running or just ended, and the
\* careers cell came empty.
InCareersDiscovery ==
    /\ pc \in {"probe", "site", "plain", "joblist"}
    /\ Blank(df[idx].careers)

\* A probe the property accepts: HTTP 200 and a body longer than 200.
ProbeHit(e) ==
    /\ e.kind = "get:probe"
    /\ e.ret # None
    /\ e.ret.status = 200
    /\ e.ret.text_len > 200

\* The positions of the stage's log that hold a call of a kind.
At(kind) ==
    {k \in DOMAIN trace : trace[k].kind = kind}

\* A search result the site: search may return as the careers page.
OnSite(u) ==
    domain_of(u) = domain_of(website) /\ CareersWord(u)

\* What a search step of the stage yielded, from the results it logged.
SiteYield(urls) ==
    SelectSeq(urls, OnSite)

PlainYield(urls) ==
    SelectSeq(urls, CareersWord)

\* C8: with a known website the eight suffixes are probed in their fixed
\* order, nothing follows the first probe that answers 200 with a body
\* longer than 200 and that probe's URL is the result; the site: search is
\* made only after eight failed probes; the "<name> careers" search is made
\* only when the earlier steps produced nothing or no website is known; and
\* when no step yields anything the careers field is empty.
C8_CareersFallbackOrder ==
    InCareersDiscovery =>
      LET np == Cardinality(At("get:probe"))
          hit == np > 0 /\ ProbeHit(trace[np])
          ended == pc = "joblist"
      IN  /\ np <= 8
          /\ At("get:probe") = 1..np
          /\ \A k \in 1..np : trace[k].url = website \o CANDIDATES[k]
          /\ \A k \in 1..(np - 1) : ~ProbeHit(trace[k])
          /\ np > 0 => website # <<>>
          /\ hit => /\ Len(trace) = np
                    /\ ended
                    /\ careers = trace[np].url
                    /\ out_df[idx].careers = trace[np].url
          /\ (website # <<>> /\ ~hit /\ np < 8) => pc = "probe"
          /\ At("search:site") # {} =>
               /\ np = 8
               /\ ~hit
               /\ At("search:site") = {9}
          /\ (ended /\ website # <<>> /\ ~hit) => At("search:site") = {9}
          /\ (ended /\ Len(trace) = 9) =>
               /\ SiteYield(trace[9].urls) # <<>>
               /\ out_df[idx].careers = normalize_url(SiteYield(trace[9].urls)[1])
          /\ At("search:careers") # {} =>
               /\ ended
               /\ \/ website = <<>> /\ Len(trace) = 1
                  \/ /\ At("search:site") = {9}
                     /\ SiteYield(trace[9].urls) = <<>>
                     /\ At("search:careers") = {10}
               /\ out_df[idx].careers =
                    IF PlainYield(trace[Len(trace)].urls) = <<>> THEN <<>>
                    ELSE normalize_url(PlainYield(trace[Len(trace)].urls)[1])
          /\ (ended /\ website = <<>>) => At("search:careers") = {1}
          /\ (ended /\ At("search:site") = {9} /\ SiteYield(trace[9].urls) = <<>>)
               => At("search:careers") = {10}

\* With a known website, a probe answered 200 with a body of exactly 200,
\* all eight probes failed, the site: search gave only results that do not
\* fit, and the "<name> careers" search gave the careers page.
C8_Witness ==
    /\ InCareersDiscovery
    /\ pc = "joblist"
    /\ website = W_norm
    /\ Len(trace) = 10
    /\ trace[2].ret # None
    /\ trace[2].ret.status = 200
    /\ trace[2].ret.text_len = 200
    /\ trace[9].urls = <<R_about, R_site>>
    /\ trace[10].urls = <<R_about, R_career>>
    /\ out_df[idx].careers = R_career

\* The five providers with a dedicated parser.
Dedicated ==
    {"teamtailor", "lever", "greenhouse", "workable", "personio"}

\* The label whose hit the job-board stage stored.
ChosenLabels ==
    {ats_hits[i][1] : i \in {k \in DOMAIN ats_hits : ats_hits[k][2] = joblist}}

\* C10: whenever the job-board URL was chosen from detection as the hit
\* recorded under one of teamtailor, lever, greenhouse, workable, personio,
\* the parser the dispatcher runs on it is that provider's parser.
C10_DispatchAgrees ==
    (ChoseFromDetection /\ pc = "write") =>
      \A label \in ChosenLabels \cap Dedicated : parser = label
====
